---------------------------- MODULE Spec2Model ----------------------------
(***************************************************************************)
(* AutoSetSyntax (Sublime Text plugin): the syntax mapping table, the      *)
(* working-scope filter, the event gate and the syntax applier.            *)
(*                                                                         *)
(* Text is modelled as sequences of characters.  A regular expression is   *)
(* a sequence over the characters of Chars plus "^" (start anchor) and     *)
(* "(" (an unclosed group, which re.compile rejects).  The content of a    *)
(* syntax-definition resource is a sequence of lexical tokens.             *)
(***************************************************************************)
EXTENDS Integers, Sequences, FiniteSets, TLC

\* ------------------------------------------------------------- bounds
\* longest first line of a buffer
MaxLineLen == 2

\* ------------------------------------------------------------- values
None == <<>>
Some(x) == <<x>>
IsNone(o) == o = <<>>
Unwrap(o) == o[1]

Min(a, b) == IF a <= b THEN a ELSE b

Chars == {"a", "b"}

RECURSIVE SeqsUpTo(_, _)
SeqsUpTo(S, n) ==
    IF n = 0 THEN {<<>>}
    ELSE LET shorter == SeqsUpTo(S, n - 1)
         IN shorter \cup {Append(s, c) : s \in shorter, c \in S}

\* the first lines a buffer may hold
Lines == SeqsUpTo(Chars, MaxLineLen)

\* ------------------------------------------------------- Python's re
\* re.compile(pattern) raises on an unterminated group
CompileFails(pattern) == \E i \in 1..Len(pattern) : pattern[i] = "("

\* the pattern from element i on matches s starting at offset pos (0-based)
RECURSIVE MatchFrom(_, _, _, _)
MatchFrom(regex, i, s, pos) ==
    IF i > Len(regex) THEN TRUE
    ELSE IF regex[i] = "^" THEN pos = 0 /\ MatchFrom(regex, i + 1, s, pos)
    ELSE /\ pos < Len(s)
         /\ s[pos + 1] = regex[i]
         /\ MatchFrom(regex, i + 1, s, pos + 1)

\* regex.search(s) is not None
Search(regex, s) == \E pos \in 0..Len(s) : MatchFrom(regex, 1, s, pos)

\* ------------------------------------------- resources and their text
Tok(t) == [t |-> t, v |-> <<>>]
Val(t, p) == [t |-> t, v |-> p]

ExtSublimeSyntax == ".sublime-syntax"
ExtTmLanguage == ".tmLanguage"

\* syntaxFileExts, priority from high to low
SyntaxFileExts == <<ExtSublimeSyntax, ExtTmLanguage>>

\* a resource path is the path without extension followed by the extension
Path(name, ext) == <<name, ext>>

\* os.path.splitext(resource)
SplitExt(resource) == [name |-> SubSeq(resource, 1, Len(resource) - 1),
                       ext |-> <<resource[Len(resource)]>>]

\* str.strip(): leading and trailing whitespace removed
RECURSIVE LStrip(_)
LStrip(content) ==
    IF content # <<>> /\ Head(content).t = "ws" THEN LStrip(Tail(content))
    ELSE content

RECURSIVE RStrip(_)
RStrip(content) ==
    IF content # <<>> /\ content[Len(content)].t = "ws"
    THEN RStrip(SubSeq(content, 1, Len(content) - 1))
    ELSE content

Strip(content) == RStrip(LStrip(content))

\* str.find(sub): the first index (1-based) of a token whose text holds the
\* substring, 0 when there is none (Python's -1)
Find(content, holds) ==
    IF \E i \in 1..Len(content) : content[i].t \in holds
    THEN CHOOSE i \in 1..Len(content) :
            /\ content[i].t \in holds
            /\ \A j \in 1..(i - 1) : content[j].t \notin holds
    ELSE 0

\* the tokens whose text holds "contexts:", "first_line_match", "firstLineMatch"
HoldsContexts == {"contexts:"}
HoldsFirstLineMatchYaml == {"first_line_match:", "#first_line_match"}
HoldsFirstLineMatchXml == {"<key>firstLineMatch</key>", "<!--firstLineMatch-->"}

\* results of an extraction: a value, None, or an exception
Ret(v) == [kind |-> "value", val |-> v]
RetNone == [kind |-> "none", val |-> <<>>]
Raise == [kind |-> "raise", val |-> <<>>]

\* yaml.load(content): an exception on a malformed document, None on a
\* document without mapping lines, otherwise the dict of its mapping lines
YamlKeyLines(content) ==
    {i \in 1..Len(content) : content[i].t \in {"first_line_match:", "name:"}}

YamlLoad(content) ==
    IF \E i \in 1..Len(content) : content[i].t = "!bad"
    THEN Raise
    ELSE IF YamlKeyLines(content) = {} THEN RetNone
    ELSE Ret([k \in {content[i].t : i \in YamlKeyLines(content)} |->
                LET last == CHOOSE i \in YamlKeyLines(content) :
                                /\ content[i].t = k
                                /\ \A j \in YamlKeyLines(content) :
                                        content[j].t = k => j <= i
                IN content[last].v])

\* an extractor that does not strip the text from "contexts:" on
findFirstLineMatchYamlNoCut(content) ==
    LET yamlDict == YamlLoad(content)
    IN IF Find(content, HoldsFirstLineMatchYaml) = 0 THEN RetNone
       ELSE IF yamlDict.kind = "raise" THEN Raise
       ELSE IF yamlDict.kind = "none" THEN Raise
       ELSE IF "first_line_match:" \in DOMAIN yamlDict.val
            THEN Ret(yamlDict.val["first_line_match:"])
            ELSE RetNone

findFirstLineMatchYaml(content) ==
    LET cutPos == Find(content, HoldsContexts)
        cut == IF cutPos # 0 THEN SubSeq(content, 1, cutPos - 1) ELSE content
        yamlDict == YamlLoad(cut)
    IN IF Find(cut, HoldsFirstLineMatchYaml) = 0 THEN RetNone
       ELSE IF yamlDict.kind = "raise" THEN Raise
       \* 'first_line_match' in None raises TypeError
       ELSE IF yamlDict.kind = "none" THEN Raise
       ELSE IF "first_line_match:" \in DOMAIN yamlDict.val
            THEN Ret(yamlDict.val["first_line_match:"])
            ELSE RetNone

\* the text of the tokens from..to, joined
RECURSIVE JoinText(_, _, _)
JoinText(content, from, to) ==
    IF from > to THEN <<>>
    ELSE content[from].v \o JoinText(content, from + 1, to)

\* re.search(r"firstLineMatch</key>\s*<string>(.*?)</string>", content, re.DOTALL)
XmlMatchAt(content, k) ==
    /\ content[k].t = "<key>firstLineMatch</key>"
    /\ \E s \in (k + 1)..Len(content) :
          /\ content[s].t = "<string>"
          /\ \A w \in (k + 1)..(s - 1) : content[w].t = "ws"
          /\ \E e \in (s + 1)..Len(content) : content[e].t = "</string>"

findFirstLineMatchXml(content) ==
    LET cutPoint == Find(content, HoldsFirstLineMatchXml)
        cut == SubSeq(content, cutPoint, Len(content))
        hits == {k \in 1..Len(cut) : XmlMatchAt(cut, k)}
    IN IF cutPoint = 0 THEN RetNone
       ELSE IF hits = {} THEN RetNone
       ELSE LET k == CHOOSE k \in hits : \A h \in hits : k <= h
                s == CHOOSE s \in (k + 1)..Len(cut) :
                        /\ cut[s].t = "<string>"
                        /\ \A w \in (k + 1)..(s - 1) : cut[w].t = "ws"
                e == CHOOSE e \in (s + 1)..Len(cut) :
                        /\ cut[e].t = "</string>"
                        /\ \A j \in (s + 1)..(e - 1) : cut[j].t # "</string>"
            IN Ret(JoinText(cut, s + 1, e - 1))

\* content[0] raises IndexError when nothing is left after strip()
findFirstLineMatch(content) ==
    LET stripped == Strip(content)
    IN IF stripped = <<>> THEN Raise
       ELSE IF stripped[1].t = "%YAML" THEN findFirstLineMatchYaml(stripped)
       ELSE findFirstLineMatchXml(stripped)


\* ------------------------------------------------- the host's packages
YamlText(pattern) == <<Tok("%YAML"), Tok("name:"), Val("first_line_match:", pattern),
                       Tok("contexts:"), Tok("rule")>>
YamlTextLate(pattern) == <<Tok("ws"), Tok("%YAML"), Tok("name:"), Tok("contexts:"),
                           Val("first_line_match:", pattern)>>
YamlTextBad(pattern) == <<Tok("%YAML"), Val("first_line_match:", pattern), Tok("!bad"),
                          Tok("contexts:")>>
XmlText(pattern) == <<Tok("<?xml"), Tok("<key>firstLineMatch</key>"), Tok("ws"),
                      Tok("<string>"), Val("text", pattern), Tok("</string>"), Tok("ws")>>

Resource(name, ext, content) == [path |-> Path(name, ext), content |-> content]

ResA  == Resource("Packages/A", ExtSublimeSyntax, YamlText(<<"a">>))
ResA2 == Resource("Packages/A", ExtTmLanguage, XmlText(<<"b">>))
ResB  == Resource("Packages/B", ExtTmLanguage, XmlText(<<"^", "b">>))
ResC  == Resource("Packages/C", ExtSublimeSyntax, YamlText(<<"(">>))
ResD  == Resource("Packages/D", ExtSublimeSyntax, YamlTextLate(<<"b">>))
ResE  == Resource("Packages/E", ExtSublimeSyntax, YamlTextBad(<<"b">>))
ResF  == Resource("Packages/F", ExtTmLanguage, <<Tok("ws")>>)

WellFormed == {ResA, ResA2, ResB, ResC}

\* the sets of resources a host may have installed
Installations == {WellFormed, {ResC, ResD}, {ResB, ResE, ResF}}

\* ------------------------------------------------------ configuration
UserSyntaxFiles == {<<"U1">>, <<"U2">>}
PlainText == <<"Plain">>

Mapping(syntaxFile, firstLineMatches) ==
    [syntaxFile |-> syntaxFile, firstLineMatches |-> firstLineMatches]

\* values of the setting "syntax_mapping", in the order items() yields them
SyntaxMappingChoices ==
    { <<>>,
      <<Mapping(<<"U1">>, << <<"(">>, <<"b">> >>), Mapping(<<"U2">>, << <<"a">> >>)>>,
      <<Mapping(<<"U2">>, << <<"^", "b">>, <<"a", "b">> >>), Mapping(<<"U1">>, << <<"(">> >>)>> }

\* values of the setting "working_scope"
WorkingScopeChoices == { <<"^", "a">>, <<"b">>, <<"(">> }

\* values of the setting "first_line_length_max"
FirstLineLengthMaxChoices == {-1, 0, 1}

EventNames == <<"on_activated_async", "on_clone_async", "on_load_async",
                "on_modified_async", "on_new_async", "on_post_paste",
                "on_pre_save_async">>

\* a dict of toggles: event i is true, false or missing by (i + k) % 3
ToggleDict(k) ==
    LET present == {EventNames[i] : i \in {j \in 1..Len(EventNames) : (j + k) % 3 # 2}}
        index(e) == CHOOSE i \in 1..Len(EventNames) : EventNames[i] = e
    IN [e \in present |-> (index(e) + k) % 3 = 0]

\* values of the setting "event_listeners": absent, or a dict
EventListenersChoices == {None, Some(ToggleDict(0)), Some(ToggleDict(1))}

\* the scope at offset 0 of a buffer: plain text, or source of some syntax
ScopeName(syntax) == IF syntax = PlainText THEN <<"a">> ELSE <<"b">>

\* ------------------------------------------------------------- state
VARIABLES
    installed,          \* host: the syntax resources of the installed packages
    cfg,                \* host: the content of AutoSetSyntax.sublime-settings
    onChange,           \* host: the tags registered by settings.add_on_change
    view,               \* host: the buffer, [firstLine, syntax]
    phase,              \* "imported", "loaded" or "unloaded"
    settings,           \* global settings: None or loaded
    logger,             \* global logger: None or the logger
    handlers,           \* number of stream handlers attached to the logger
    workingScopeRegex,  \* global workingScopeRegex: None or Some(regex)
    syntaxMappings,     \* global syntaxMappings: None or Some(object)
    thread,             \* the event callback in flight on the async thread
    last                \* what the most recent callback did

vars == <<installed, cfg, onChange, view, phase, settings, logger, handlers,
          workingScopeRegex, syntaxMappings, thread, last>>

globals == <<settings, logger, workingScopeRegex, syntaxMappings>>

\* the record of a callback: its name (and the text command reported to
\* on_post_text_command), whether it ran the applier, whether an exception
\* left it, the warnings and errors it logged, the firstLine the applier
\* matched against and the set_syntax_file requests it issued, and whether
\* the callback right before it ran the applier too; for a direct call of a
\* method, its arguments and what it returned
Did(op) == [op |-> op, cmd |-> "", invoked |-> FALSE, raised |-> FALSE,
            warned |-> 0, errors |-> 0, firstLine |-> <<>>, requests |-> <<>>,
            again |-> FALSE, args |-> <<>>, result |-> <<>>]
Idle == Did("")

\* the callback in flight on the async thread: where it is (pc), the result of
\* its isOnWorkingScope, the locals of run (firstLine, the list being iterated
\* and the position in it), whether an exception left it and the requests it
\* issued; and, for the record, the filters that were current during its
\* isOnWorkingScope and the tables that were current during its run
IdleThread ==
    [pc |-> "idle", scope |-> None, firstLine |-> <<>>, table |-> <<>>,
     i |-> 0, j |-> 0, raised |-> FALSE, requests |-> <<>>,
     filters |-> {}, tables |-> {}]

\* the record of a thread while a filter or a table becomes current
SeeFilter(t, filter) ==
    IF t.pc \in {"is_none", "search"} THEN [t EXCEPT !.filters = @ \cup {filter}] ELSE t
SeeTable(t, table) ==
    IF t.pc \in {"getPartialFirstLine", "value", "scan"}
    THEN [t EXCEPT !.tables = @ \cup {table}]
    ELSE t

\* ------------------------------------------------ class SyntaxMappings
Entry(syntaxFile, regexes) == [syntaxFile |-> syntaxFile, regexes |-> regexes]

\* a loop that gives up at the first pattern that does not compile
RECURSIVE CompileEachAbort(_)
CompileEachAbort(firstLineMatches) ==
    IF firstLineMatches = <<>> THEN <<>>
    ELSE IF CompileFails(Head(firstLineMatches)) THEN <<>>
         ELSE <<Head(firstLineMatches)>> \o CompileEachAbort(Tail(firstLineMatches))

\* the patterns of one setting entry that compile, in order
RECURSIVE CompileEach(_)
CompileEach(firstLineMatches) ==
    IF firstLineMatches = <<>> THEN <<>>
    ELSE IF CompileFails(Head(firstLineMatches))
         THEN CompileEach(Tail(firstLineMatches))
         ELSE <<Head(firstLineMatches)>> \o CompileEach(Tail(firstLineMatches))

\* a build that appends an entry whether or not a pattern compiled
RECURSIVE buildUserKeepEmpty(_)
buildUserKeepEmpty(syntax_mapping) ==
    IF syntax_mapping = <<>> THEN <<>>
    ELSE <<[syntaxFile |-> Head(syntax_mapping).syntaxFile,
            regexes |-> CompileEach(Head(syntax_mapping).firstLineMatches)]>>
         \o buildUserKeepEmpty(Tail(syntax_mapping))

RECURSIVE buildSyntaxMappingsFromUser(_)
buildSyntaxMappingsFromUser(syntax_mapping) ==
    IF syntax_mapping = <<>> THEN <<>>
    ELSE LET item == Head(syntax_mapping)
             firstLineMatchRegexes == CompileEach(item.firstLineMatches)
             rest == buildSyntaxMappingsFromUser(Tail(syntax_mapping))
         IN IF Len(firstLineMatchRegexes) > 0
            THEN <<Entry(item.syntaxFile, firstLineMatchRegexes)>> \o rest
            ELSE rest

\* the calls of logger.error in buildSyntaxMappingsFromUser
RECURSIVE UserErrors(_)
UserErrors(syntax_mapping) ==
    IF syntax_mapping = <<>> THEN 0
    ELSE Len(Head(syntax_mapping).firstLineMatches)
         - Len(CompileEach(Head(syntax_mapping).firstLineMatches))
         + UserErrors(Tail(syntax_mapping))

\* sublime.find_resources('*' + ext), as a set: the host decides the order
FindResources(packages, ext) ==
    {r.path : r \in {q \in packages : SplitExt(q.path).ext = <<ext>>}}

\* sublime.load_resource(path)
LoadResource(packages, path) == (CHOOSE r \in packages : r.path = path).content

\* the orders in which the host may list a set, or a dict may yield its keys
Orders(S) ==
    {o \in [1..Cardinality(S) -> S] : \A x \in S : \E i \in DOMAIN o : o[i] = x}

\* what the find_resources calls may return: one list per extension
FoundLists(packages) ==
    {found \in [1..Len(SyntaxFileExts) -> UNION {Orders(FindResources(packages, SyntaxFileExts[i])) :
                                                    i \in 1..Len(SyntaxFileExts)}] :
        \A i \in 1..Len(SyntaxFileExts) :
            found[i] \in Orders(FindResources(packages, SyntaxFileExts[i]))}

EmptyDict == [n \in {} |-> <<>>]

\* an inner loop that overwrites the extension already entered for a name
RECURSIVE GriddleOneOverwrite(_, _, _)
GriddleOneOverwrite(resources, j, syntaxGriddle) ==
    IF j > Len(resources) THEN syntaxGriddle
    ELSE LET split == SplitExt(resources[j])
         IN GriddleOneOverwrite(resources, j + 1,
                [n \in DOMAIN syntaxGriddle \cup {split.name} |->
                    IF n = split.name THEN split.ext ELSE syntaxGriddle[n]])

\* the inner loop: the resources of one list entered into syntaxGriddle
RECURSIVE GriddleOne(_, _, _)
GriddleOne(resources, j, syntaxGriddle) ==
    IF j > Len(resources) THEN syntaxGriddle
    ELSE LET split == SplitExt(resources[j])
         IN GriddleOne(resources, j + 1,
                IF split.name \notin DOMAIN syntaxGriddle
                THEN [n \in DOMAIN syntaxGriddle \cup {split.name} |->
                        IF n = split.name THEN split.ext ELSE syntaxGriddle[n]]
                ELSE syntaxGriddle)

\* the outer loop over syntaxFileExts
RECURSIVE Griddle(_, _, _)
Griddle(found, i, syntaxGriddle) ==
    IF i > Len(found) THEN syntaxGriddle
    ELSE Griddle(found, i + 1, GriddleOne(found[i], 1, syntaxGriddle))

RECURSIVE ConcatFound(_, _)
ConcatFound(found, i) ==
    IF i > Len(found) THEN <<>>
    ELSE found[i] \o ConcatFound(found, i + 1)

\* the orders in which syntaxGriddle.items() may yield its names
ItemsOrders(found) == Orders(DOMAIN Griddle(found, 1, EmptyDict))

\* findSyntaxResources(dropDuplicated), given the lists find_resources returns
\* and the order in which syntaxGriddle.items() yields the names
findSyntaxResources(dropDuplicated, found, itemsOrder) ==
    LET syntaxGriddle == Griddle(found, 1, EmptyDict)
    IN IF dropDuplicated
       THEN [i \in DOMAIN itemsOrder |-> itemsOrder[i] \o syntaxGriddle[itemsOrder[i]]]
       ELSE ConcatFound(found, 1)

\* buildSyntaxMappingsFromSt over the resources syntaxFiles[i..]: the entries,
\* or an exception of findFirstLineMatch, which nothing catches
RECURSIVE StEntries(_, _, _)
StEntries(packages, syntaxFiles, i) ==
    IF i > Len(syntaxFiles) THEN Ret(<<>>)
    ELSE LET syntaxFile == syntaxFiles[i]
             firstLineMatch == findFirstLineMatch(LoadResource(packages, syntaxFile))
             rest == StEntries(packages, syntaxFiles, i + 1)
         IN IF firstLineMatch.kind = "raise" THEN Raise
            ELSE IF rest.kind = "raise" THEN Raise
            ELSE IF firstLineMatch.kind = "none" THEN rest
            ELSE IF CompileFails(firstLineMatch.val) THEN rest
            ELSE Ret(<<Entry(syntaxFile, <<firstLineMatch.val>>)>> \o rest.val)

buildSyntaxMappingsFromSt(packages, found, itemsOrder) ==
    StEntries(packages, findSyntaxResources(TRUE, found, itemsOrder), 1)

\* the calls of logger.error in a buildSyntaxMappingsFromSt that returns
StErrors(packages, found, itemsOrder) ==
    LET syntaxFiles == findSyntaxResources(TRUE, found, itemsOrder)
    IN Cardinality({i \in DOMAIN syntaxFiles :
          LET m == findFirstLineMatch(LoadResource(packages, syntaxFiles[i]))
          IN m.kind = "value" /\ CompileFails(m.val)})

\* a rebuild that puts the host-discovered mappings first
rebuildStFirst(self, syntax_mapping) ==
    [self EXCEPT !.syntaxMappings =
        self.syntaxMappingsSt \o buildSyntaxMappingsFromUser(syntax_mapping)]

\* a rebuild that keeps one list for the table and the host-discovered part
rebuildSharesList(self, syntax_mapping) ==
    LET table == buildSyntaxMappingsFromUser(syntax_mapping) \o self.syntaxMappingsSt
    IN [self EXCEPT !.syntaxMappings = table, !.syntaxMappingsSt = table]

\* rebuildSyntaxMappings: the object with its table rebuilt
rebuildSyntaxMappings(self, syntax_mapping) ==
    [self EXCEPT !.syntaxMappings =
        buildSyntaxMappingsFromUser(syntax_mapping) \o self.syntaxMappingsSt]

\* value()
value(self) == self.syntaxMappings

\* a compileWorkingScope that falls back to a filter matching every scope
compileWorkingScopeFailOpen(workingScope) ==
    IF CompileFails(workingScope) THEN Some(<<>>) ELSE Some(workingScope)

\* compileWorkingScope: the new workingScopeRegex
compileWorkingScope(workingScope) ==
    IF CompileFails(workingScope) THEN None ELSE Some(workingScope)

\* ------------------------------------------------------ the event gate
\* an isEventListenerEnabled that takes a missing toggle for disabled
isEventListenerEnabledFailClosed(event) ==
    IF /\ ~IsNone(settings)
       /\ ~IsNone(cfg.event_listeners)
       /\ event \in DOMAIN Unwrap(cfg.event_listeners)
    THEN [val |-> Unwrap(cfg.event_listeners)[event], raised |-> FALSE, warned |-> 0]
    ELSE IF IsNone(logger)
         THEN [val |-> FALSE, raised |-> TRUE, warned |-> 0]
         ELSE [val |-> FALSE, raised |-> FALSE, warned |-> 1]

\* isEventListenerEnabled(event): the value returned, whether an exception
\* left it (logger is None in the except clause), and the warnings logged
isEventListenerEnabled(event) ==
    IF /\ ~IsNone(settings)
       /\ ~IsNone(cfg.event_listeners)
       /\ event \in DOMAIN Unwrap(cfg.event_listeners)
    THEN [val |-> Unwrap(cfg.event_listeners)[event], raised |-> FALSE, warned |-> 0]
    ELSE IF IsNone(logger)
         THEN [val |-> FALSE, raised |-> TRUE, warned |-> 0]
         ELSE [val |-> TRUE, raised |-> FALSE, warned |-> 1]

\* a check that also passes on the third line
isFirstCursorNearBeginningOffByOne(row) == row <= 2

\* the structural guards of on_modified_async in AutoSetNewFileSyntax.py:
\* it returns when there is not one cursor, or the cursor is below row 1
NewFilePassesCursorGuards(sels, row) ==
    IF sels # 1 THEN FALSE
    ELSE IF row > 1 THEN FALSE
    ELSE TRUE

isOnlyOneCursor(sels) == sels = 1

isFirstCursorNearBeginning(row) == row < 2

isOnWorkingScope(v) ==
    IF IsNone(workingScopeRegex) \/ ~Search(Unwrap(workingScopeRegex), ScopeName(v.syntax))
    THEN FALSE
    ELSE TRUE

\* the outcome of a handler's condition: whether it runs auto_set_syntax
Outcome(invoked, raised, warned) ==
    [invoked |-> invoked, raised |-> raised, warned |-> warned]

\* a condition that lets either guard suffice
GateToggleOrScope(event) ==
    LET enabled == isEventListenerEnabled(event)
    IN IF enabled.raised THEN Outcome(FALSE, TRUE, 0)
       ELSE Outcome(enabled.val \/ isOnWorkingScope(view), FALSE, enabled.warned)

\* the condition shared by on_activated_async, on_clone_async, on_load_async,
\* on_new_async and on_pre_save_async
GateToggleScope(event) ==
    LET enabled == isEventListenerEnabled(event)
    IN IF enabled.raised THEN Outcome(FALSE, TRUE, 0)
       ELSE Outcome(enabled.val /\ isOnWorkingScope(view), FALSE, enabled.warned)

\* the condition of on_modified_async
GateModified(sels, row) ==
    LET enabled == isEventListenerEnabled("on_modified_async")
    IN IF enabled.raised THEN Outcome(FALSE, TRUE, 0)
       ELSE Outcome(/\ enabled.val
                    /\ isOnlyOneCursor(sels)
                    /\ isFirstCursorNearBeginning(row)
                    /\ isOnWorkingScope(view),
                    FALSE, enabled.warned)

PasteCommands == {"patse", "paste_and_indent"}

\* the condition of on_post_text_command
GatePostTextCommand(command_name) ==
    LET enabled == isEventListenerEnabled("on_post_paste")
    IN IF ~isOnWorkingScope(view) THEN Outcome(FALSE, FALSE, 0)
       ELSE IF enabled.raised THEN Outcome(FALSE, TRUE, 0)
       ELSE Outcome(enabled.val /\ command_name \in PasteCommands,
                    FALSE, enabled.warned)

\* --------------------------------------------------- the syntax applier
\* a getPartialFirstLine that keeps one character more than the maximum
getPartialFirstLineOffByOne(firstLine, firstLineLengthMax) ==
    LET end == Len(firstLine)
    IN IF firstLineLengthMax >= 0
       THEN SubSeq(firstLine, 1, Min(end, firstLineLengthMax + 1))
       ELSE SubSeq(firstLine, 1, end)

\* getPartialFirstLine
getPartialFirstLine(firstLine, firstLineLengthMax) ==
    LET end == Len(firstLine)
    IN IF firstLineLengthMax >= 0
       THEN SubSeq(firstLine, 1, Min(end, firstLineLengthMax))
       ELSE SubSeq(firstLine, 1, end)

\* a scan that does not return at a match: a request for every matching entry
RECURSIVE ScanNoReturn(_, _, _, _)
ScanNoReturn(table, i, j, firstLine) ==
    IF i > Len(table) THEN <<>>
    ELSE IF j > Len(table[i].regexes) THEN ScanNoReturn(table, i + 1, 1, firstLine)
    ELSE IF Search(table[i].regexes[j], firstLine)
         THEN <<table[i].syntaxFile>> \o ScanNoReturn(table, i + 1, 1, firstLine)
    ELSE ScanNoReturn(table, i, j + 1, firstLine)

\* a scan that falls back to plain text when nothing matches
RECURSIVE ScanDefault(_, _, _, _)
ScanDefault(table, i, j, firstLine) ==
    IF i > Len(table) THEN <<PlainText>>
    ELSE IF j > Len(table[i].regexes) THEN ScanDefault(table, i + 1, 1, firstLine)
    ELSE IF Search(table[i].regexes[j], firstLine) THEN <<table[i].syntaxFile>>
    ELSE ScanDefault(table, i, j + 1, firstLine)

\* the loops of run from entry i, pattern j on: the set_syntax_file requests
RECURSIVE Scan(_, _, _, _)
Scan(table, i, j, firstLine) ==
    IF i > Len(table) THEN <<>>
    ELSE IF j > Len(table[i].regexes) THEN Scan(table, i + 1, 1, firstLine)
    ELSE IF Search(table[i].regexes[j], firstLine) THEN <<table[i].syntaxFile>>
    ELSE Scan(table, i, j + 1, firstLine)

\* a run that passes over the entries of the syntax the buffer already has
runSkipCurrent(v) ==
    IF IsNone(settings) \/ IsNone(syntaxMappings)
    THEN [firstLine |-> <<>>, requests |-> <<>>, raised |-> TRUE]
    ELSE LET firstLine == getPartialFirstLine(v.firstLine, cfg.first_line_length_max)
             others == SelectSeq(value(Unwrap(syntaxMappings)),
                                 LAMBDA entry : entry.syntaxFile # v.syntax)
         IN [firstLine |-> firstLine,
             requests |-> Scan(others, 1, 1, firstLine),
             raised |-> FALSE]

\* autoSetSyntaxCommand.run on the buffer: the requests it issues, or an
\* exception when settings or syntaxMappings is None
run(v) ==
    IF IsNone(settings) \/ IsNone(syntaxMappings)
    THEN [firstLine |-> <<>>, requests |-> <<>>, raised |-> TRUE]
    ELSE LET firstLine == getPartialFirstLine(v.firstLine, cfg.first_line_length_max)
         IN [firstLine |-> firstLine,
             requests |-> Scan(value(Unwrap(syntaxMappings)), 1, 1, firstLine),
             raised |-> FALSE]

\* the buffer after the host served the requests
RECURSIVE Served(_, _)
Served(v, requests) ==
    IF requests = <<>> THEN v
    ELSE Served([v EXCEPT !.syntax = Head(requests)], Tail(requests))

\* ------------------------------------------------------------ actions
Configurations ==
    [syntax_mapping : SyntaxMappingChoices,
     working_scope : WorkingScopeChoices,
     first_line_length_max : FirstLineLengthMaxChoices,
     event_listeners : EventListenersChoices]

\* the module has been imported: its globals are None, no callback has run
Init ==
    /\ installed \in Installations
    /\ cfg \in Configurations
    /\ onChange = {}
    /\ view \in [firstLine : Lines, syntax : {PlainText}]
    /\ phase = "imported"
    /\ settings = None
    /\ logger = None
    /\ handlers = 0
    /\ workingScopeRegex = None
    /\ syntaxMappings = None
    /\ thread = IdleThread
    /\ last = Idle

\* plugin_loaded, with SyntaxMappings.__init__: an exception of
\* buildSyntaxMappingsFromSt leaves it after the logger, the settings and the
\* "syntax_mapping" callback are set
plugin_loaded ==
    /\ phase = "imported"
    /\ \E found \in FoundLists(installed) : \E itemsOrder \in ItemsOrders(found) :
          LET st == buildSyntaxMappingsFromSt(installed, found, itemsOrder)
              self == rebuildSyntaxMappings(
                          [syntaxMappings |-> <<>>, syntaxMappingsSt |-> st.val],
                          cfg.syntax_mapping)
          IN IF st.kind = "raise"
             THEN /\ onChange' = onChange \cup {"syntax_mapping"}
                  /\ UNCHANGED <<syntaxMappings, workingScopeRegex>>
                  /\ last' = [Did("plugin_loaded") EXCEPT !.raised = TRUE]
             ELSE /\ onChange' = onChange \cup {"syntax_mapping", "working_scope"}
                  /\ syntaxMappings' = Some(self)
                  /\ workingScopeRegex' = compileWorkingScope(cfg.working_scope)
                  /\ last' = [Did("plugin_loaded") EXCEPT
                                !.errors = StErrors(installed, found, itemsOrder)
                                           + UserErrors(cfg.syntax_mapping)
                                           + (IF CompileFails(cfg.working_scope) THEN 1 ELSE 0)]
    /\ handlers' = handlers + 1
    /\ logger' = Some("logger")
    /\ settings' = Some("settings")
    /\ phase' = "loaded"
    /\ UNCHANGED <<thread, installed, cfg, view>>

plugin_unloaded ==
    /\ phase = "loaded"
    /\ onChange' = onChange \ {"syntax_mapping", "working_scope"}
    /\ handlers' = handlers - 1
    /\ phase' = "unloaded"
    /\ last' = Did("plugin_unloaded")
    /\ UNCHANGED <<thread, installed, cfg, view, globals>>

\* the host imports the module again: the module-level assignments
ModuleImport ==
    /\ phase = "unloaded"
    /\ phase' = "imported"
    /\ settings' = None
    /\ workingScopeRegex' = None
    /\ syntaxMappings' = None
    /\ logger' = None
    /\ last' = Idle
    /\ UNCHANGED <<thread, installed, cfg, onChange, view, handlers>>

\* an event handler: its condition, then view.run_command('auto_set_syntax')
Dispatch(op, cmd, outcome) ==
    LET ran == run(view)
        requests == IF outcome.invoked THEN ran.requests ELSE <<>>
    IN /\ view' = Served(view, requests)
       /\ last' = [Did(op) EXCEPT
                     !.cmd = cmd,
                     !.invoked = outcome.invoked,
                     !.raised = outcome.raised \/ (outcome.invoked /\ ran.raised),
                     !.warned = outcome.warned,
                     !.firstLine = IF outcome.invoked THEN ran.firstLine ELSE <<>>,
                     !.requests = requests,
                     !.again = outcome.invoked /\ last.invoked]
       /\ UNCHANGED <<thread, installed, cfg, onChange, phase, globals, handlers>>

\* an event handler called once plugin_loaded has run
Handle(op, cmd, outcome) ==
    /\ phase = "loaded"
    /\ Dispatch(op, cmd, outcome)

on_activated_async ==
    Handle("on_activated_async", "", GateToggleScope("on_activated_async"))

on_clone_async ==
    Handle("on_clone_async", "", GateToggleScope("on_clone_async"))

on_load_async ==
    Handle("on_load_async", "", GateToggleScope("on_load_async"))

\* len(view.sel()) and the row of the first cursor, as the host reports them
CursorCounts == 0..2
CursorRows == 0..2

OnModified(sels, row) ==
    Handle("on_modified_async", "", GateModified(sels, row))

on_modified_async ==
    \E sels \in CursorCounts : \E row \in CursorRows : OnModified(sels, row)

on_new_async ==
    Handle("on_new_async", "", GateToggleScope("on_new_async"))

\* the text commands the host may report
CommandNames == {"paste", "paste_and_indent", "insert"}

on_post_text_command ==
    \E command_name \in CommandNames :
        Handle("on_post_text_command", command_name, GatePostTextCommand(command_name))

on_pre_save_async ==
    Handle("on_pre_save_async", "", GateToggleScope("on_pre_save_async"))

\* the user runs the command auto_set_syntax on the buffer
auto_set_syntax ==
    Handle("auto_set_syntax", "", Outcome(TRUE, FALSE, 0))

\* the setting "syntax_mapping" changes; the host calls rebuildSyntaxMappings
\* when it is registered
ChangeSyntaxMapping ==
    \E m \in SyntaxMappingChoices \ {cfg.syntax_mapping} :
        /\ cfg' = [cfg EXCEPT !.syntax_mapping = m]
        /\ IF "syntax_mapping" \in onChange /\ ~IsNone(syntaxMappings)
           THEN /\ syntaxMappings' = Some(rebuildSyntaxMappings(Unwrap(syntaxMappings), m))
                /\ thread' = SeeTable(thread,
                                value(rebuildSyntaxMappings(Unwrap(syntaxMappings), m)))
                /\ last' = [Did("rebuildSyntaxMappings") EXCEPT !.errors = UserErrors(m)]
           ELSE /\ UNCHANGED <<syntaxMappings, thread>>
                /\ last' = Idle
        /\ UNCHANGED <<installed, onChange, view, phase, settings, logger, handlers,
                       workingScopeRegex>>

\* the setting "working_scope" changes; the host calls compileWorkingScope
\* when it is registered
ChangeWorkingScope ==
    \E w \in WorkingScopeChoices \ {cfg.working_scope} :
        /\ cfg' = [cfg EXCEPT !.working_scope = w]
        /\ IF "working_scope" \in onChange
           THEN /\ workingScopeRegex' = compileWorkingScope(w)
                /\ thread' = SeeFilter(thread, compileWorkingScope(w))
                /\ last' = [Did("compileWorkingScope") EXCEPT
                              !.errors = IF CompileFails(w) THEN 1 ELSE 0]
           ELSE /\ UNCHANGED <<workingScopeRegex, thread>>
                /\ last' = Idle
        /\ UNCHANGED <<installed, onChange, view, phase, settings, logger, handlers,
                       syntaxMappings>>

ChangeFirstLineLengthMax ==
    \E n \in FirstLineLengthMaxChoices \ {cfg.first_line_length_max} :
        /\ cfg' = [cfg EXCEPT !.first_line_length_max = n]
        /\ last' = Idle
        /\ UNCHANGED <<thread, installed, onChange, view, phase, globals, handlers>>

ChangeEventListeners ==
    \E t \in EventListenersChoices \ {cfg.event_listeners} :
        /\ cfg' = [cfg EXCEPT !.event_listeners = t]
        /\ last' = Idle
        /\ UNCHANGED <<thread, installed, onChange, view, phase, globals, handlers>>

\* the user edits the first line of the buffer
EditFirstLine ==
    \E line \in Lines \ {view.firstLine} :
        /\ view' = [view EXCEPT !.firstLine = line]
        /\ last' = Idle
        /\ UNCHANGED <<thread, installed, cfg, onChange, phase, globals, handlers>>

\* the user sets the buffer back to plain text
SetPlainText ==
    /\ view.syntax # PlainText
    /\ view' = [view EXCEPT !.syntax = PlainText]
    /\ last' = Idle
    /\ UNCHANGED <<thread, installed, cfg, onChange, phase, globals, handlers>>

Next ==
    \/ plugin_loaded
    \/ on_activated_async
    \/ on_clone_async
    \/ on_load_async
    \/ on_modified_async
    \/ on_new_async
    \/ on_post_text_command
    \/ on_pre_save_async
    \/ auto_set_syntax
    \/ ChangeSyntaxMapping
    \/ ChangeWorkingScope
    \/ ChangeFirstLineLengthMax
    \/ ChangeEventListeners
    \/ EditFirstLine
    \/ SetPlainText

Spec == Init /\ [][Next]_vars

\* ------------------------------------- the methods of SyntaxMappings
\* longest content (in tokens) handed to findFirstLineMatchYaml
MaxContentLen == 3

\* the lexical tokens of a .sublime-syntax resource
YamlTokens == {Tok("name:"), Val("first_line_match:", <<"a">>),
               Val("first_line_match:", <<"b">>), Tok("#first_line_match"),
               Tok("contexts:"), Tok("!bad")}

YamlContents == SeqsUpTo(YamlTokens, MaxContentLen)

\* a default configuration
DefaultConfiguration ==
    [syntax_mapping |-> <<>>, working_scope |-> <<"^", "a">>,
     first_line_length_max |-> -1, event_listeners |-> None]

\* hosts with one .sublime-syntax resource of any content
YamlPackages ==
    {{Resource("Packages/Y", ExtSublimeSyntax, content)} : content \in YamlContents}

\* the module has been imported, on a host with any of the packages
InitMethods ==
    /\ installed \in (SUBSET WellFormed) \cup YamlPackages
    /\ cfg = DefaultConfiguration
    /\ onChange = {}
    /\ view = [firstLine |-> <<>>, syntax |-> PlainText]
    /\ phase = "imported"
    /\ settings = None
    /\ logger = None
    /\ handlers = 0
    /\ workingScopeRegex = None
    /\ syntaxMappings = None
    /\ thread = IdleThread
    /\ last = Idle

\* a call of findSyntaxResources(dropDuplicated)
CallFindSyntaxResources ==
    \E dropDuplicated \in BOOLEAN :
      \E found \in FoundLists(installed) : \E itemsOrder \in ItemsOrders(found) :
        /\ last' = [Did("findSyntaxResources") EXCEPT
                      !.args = [dropDuplicated |-> dropDuplicated, found |-> found],
                      !.result = findSyntaxResources(dropDuplicated, found, itemsOrder)]
        /\ UNCHANGED <<thread, installed, cfg, onChange, view, phase, globals, handlers>>

\* a call of findFirstLineMatchYaml(content) on the content of a resource
CallFindFirstLineMatchYaml ==
    \E path \in FindResources(installed, ExtSublimeSyntax) :
        LET content == LoadResource(installed, path)
        IN /\ last' = [Did("findFirstLineMatchYaml") EXCEPT
                         !.args = content,
                         !.result = findFirstLineMatchYaml(content)]
           /\ UNCHANGED <<thread, installed, cfg, onChange, view, phase, globals, handlers>>

NextMethods ==
    \/ CallFindSyntaxResources
    \/ CallFindFirstLineMatchYaml

SpecMethods == InitMethods /\ [][NextMethods]_vars

\* ------------------------------------------------------ the lifecycle
\* The host registers the event listeners of the module when it imports it
\* and calls plugin_loaded later, so an event may reach a handler while the
\* globals are still None.
EventBeforeLoaded ==
    /\ phase = "imported"
    /\ \/ \E event \in {"on_activated_async", "on_clone_async", "on_load_async",
                        "on_new_async", "on_pre_save_async"} :
             Dispatch(event, "", GateToggleScope(event))
       \/ \E sels \in CursorCounts : \E row \in CursorRows :
             Dispatch("on_modified_async", "", GateModified(sels, row))
       \/ \E command_name \in CommandNames :
             Dispatch("on_post_text_command", command_name,
                      GatePostTextCommand(command_name))

\* the module has been imported; the line length is not limited
InitLifecycle ==
    /\ installed \in Installations
    /\ cfg \in {c \in Configurations :
                  /\ c.first_line_length_max = -1
                  /\ c.event_listeners \in {None, Some(ToggleDict(0))}}
    /\ onChange = {}
    /\ view \in [firstLine : Lines, syntax : {PlainText}]
    /\ phase = "imported"
    /\ settings = None
    /\ logger = None
    /\ handlers = 0
    /\ workingScopeRegex = None
    /\ syntaxMappings = None
    /\ thread = IdleThread
    /\ last = Idle

NextLifecycle ==
    \/ plugin_loaded
    \/ plugin_unloaded
    \/ ModuleImport
    \/ EventBeforeLoaded
    \/ on_activated_async
    \/ on_clone_async
    \/ on_load_async
    \/ on_modified_async
    \/ on_new_async
    \/ on_post_text_command
    \/ on_pre_save_async
    \/ ChangeSyntaxMapping
    \/ ChangeWorkingScope

SpecLifecycle == InitLifecycle /\ [][NextLifecycle]_vars

\* ------------------------------------------------- the async thread
\* The host runs the *_async handlers on its async thread and the
\* add_on_change callbacks on its main thread.  The interpreter may switch
\* threads between any two reads of a global, so on_load_async is taken one
\* read of a global at a time; rebuildSyntaxMappings and compileWorkingScope
\* each make one assignment and stay single steps.

\* an iteration that calls value() again at every entry
SnapshotReread(t) == value(Unwrap(syntaxMappings))

\* the list the for loop of run iterates: the one value() returned
Snapshot(t) == t.table

\* the host dispatches on_load_async
AsyncDispatch ==
    /\ phase = "loaded"
    /\ thread.pc \in {"idle", "done"}
    /\ thread' = [IdleThread EXCEPT !.pc = "isEventListenerEnabled"]
    /\ UNCHANGED <<installed, cfg, onChange, view, phase, globals, handlers, last>>

\* self.isEventListenerEnabled('on_load_async')
StepIsEventListenerEnabled ==
    /\ thread.pc = "isEventListenerEnabled"
    /\ LET enabled == isEventListenerEnabled("on_load_async")
       IN thread' = IF enabled.raised THEN [thread EXCEPT !.pc = "done", !.raised = TRUE]
                    ELSE IF ~enabled.val THEN [thread EXCEPT !.pc = "done"]
                    ELSE [thread EXCEPT !.pc = "is_none",
                                        !.filters = {workingScopeRegex}]
    /\ UNCHANGED <<installed, cfg, onChange, view, phase, globals, handlers, last>>

\* isOnWorkingScope: workingScopeRegex is None
StepIsNone ==
    /\ thread.pc = "is_none"
    /\ thread' = IF IsNone(workingScopeRegex)
                 THEN [thread EXCEPT !.pc = "done", !.scope = Some(FALSE)]
                 ELSE [thread EXCEPT !.pc = "search"]
    /\ UNCHANGED <<installed, cfg, onChange, view, phase, globals, handlers, last>>

\* isOnWorkingScope: workingScopeRegex.search(view.scope_name(0)) is None,
\* with workingScopeRegex read again; None has no attribute search
StepSearch ==
    /\ thread.pc = "search"
    /\ LET regex == workingScopeRegex
       IN thread' = IF IsNone(regex)
                    THEN [thread EXCEPT !.pc = "done", !.raised = TRUE]
                    ELSE IF ~Search(Unwrap(regex), ScopeName(view.syntax))
                    THEN [thread EXCEPT !.pc = "done", !.scope = Some(FALSE)]
                    ELSE [thread EXCEPT !.pc = "getPartialFirstLine", !.scope = Some(TRUE),
                                        !.tables = {value(Unwrap(syntaxMappings))}]
    /\ UNCHANGED <<installed, cfg, onChange, view, phase, globals, handlers, last>>

\* run: firstLine = self.getPartialFirstLine()
StepGetPartialFirstLine ==
    /\ thread.pc = "getPartialFirstLine"
    /\ thread' = [thread EXCEPT
                    !.pc = "value",
                    !.firstLine = getPartialFirstLine(view.firstLine,
                                                      cfg.first_line_length_max)]
    /\ UNCHANGED <<installed, cfg, onChange, view, phase, globals, handlers, last>>

\* run: syntaxMappings.value()
StepValue ==
    /\ thread.pc = "value"
    /\ thread' = [thread EXCEPT !.pc = "scan", !.table = value(Unwrap(syntaxMappings)),
                                !.i = 1, !.j = 1]
    /\ UNCHANGED <<installed, cfg, onChange, view, phase, globals, handlers, last>>

\* run: one turn of the loops, at entry i and pattern j
StepScan ==
    /\ thread.pc = "scan"
    /\ LET table == Snapshot(thread)
       IN IF thread.i > Len(table)
          THEN /\ thread' = [thread EXCEPT !.pc = "done"]
               /\ UNCHANGED view
          ELSE IF thread.j > Len(table[thread.i].regexes)
          THEN /\ thread' = [thread EXCEPT !.i = @ + 1, !.j = 1]
               /\ UNCHANGED view
          ELSE IF Search(table[thread.i].regexes[thread.j], thread.firstLine)
          THEN /\ thread' = [thread EXCEPT !.pc = "done",
                                           !.requests = <<table[thread.i].syntaxFile>>]
               /\ view' = Served(view, <<table[thread.i].syntaxFile>>)
          ELSE /\ thread' = [thread EXCEPT !.j = @ + 1]
               /\ UNCHANGED view
    /\ UNCHANGED <<installed, cfg, onChange, phase, globals, handlers, last>>

\* the plugin on a host with the well-formed packages, toggles not configured
InitThreads ==
    /\ installed = WellFormed
    /\ cfg \in {c \in Configurations :
                  c.event_listeners = None /\ c.first_line_length_max = -1}
    /\ onChange = {}
    /\ view \in [firstLine : Lines, syntax : {PlainText}]
    /\ phase = "imported"
    /\ settings = None
    /\ logger = None
    /\ handlers = 0
    /\ workingScopeRegex = None
    /\ syntaxMappings = None
    /\ thread = IdleThread
    /\ last = Idle

NextThreads ==
    \/ plugin_loaded
    \/ AsyncDispatch
    \/ StepIsEventListenerEnabled
    \/ StepIsNone
    \/ StepSearch
    \/ StepGetPartialFirstLine
    \/ StepValue
    \/ StepScan
    \/ ChangeSyntaxMapping
    \/ ChangeWorkingScope

SpecThreads == InitThreads /\ [][NextThreads]_vars

\* ------------------------------------------------------------- claims
\* SyntaxMappings has been constructed
Built == ~IsNone(syntaxMappings)

\* the table value() returns and its host-discovered part
Table == value(Unwrap(syntaxMappings))
StTable == Unwrap(syntaxMappings).syntaxMappingsSt

\* the last step ran the applier, and the applier returned
Applied == last.invoked /\ ~last.raised

\* the handlers of the event gate
EventHandlers == {"on_activated_async", "on_clone_async", "on_load_async",
                  "on_modified_async", "on_new_async", "on_post_text_command",
                  "on_pre_save_async"}

\* some pattern string of a "syntax_mapping" item compiles and matches the line
ItemMatches(item, line) ==
    \E k \in DOMAIN item.firstLineMatches :
        /\ ~CompileFails(item.firstLineMatches[k])
        /\ Search(item.firstLineMatches[k], line)

\* some pattern of a table entry matches the line
EntryMatches(entry, line) ==
    \E k \in DOMAIN entry.regexes : Search(entry.regexes[k], line)

\* the user mappings and the host-discovered mappings that match the line the
\* applier used
MatchingUsers ==
    {i \in DOMAIN cfg.syntax_mapping : ItemMatches(cfg.syntax_mapping[i], last.firstLine)}
MatchingHosts ==
    {j \in DOMAIN StTable : EntryMatches(StTable[j], last.firstLine)}

\* C1: when the (truncated) first line is matched by a user-defined mapping
\* and by a host-discovered mapping, one run of the applier sets the syntax to
\* the identifier of the user mapping (the first one in configuration order
\* when several match) and to no matching host-discovered identifier, for
\* every discovery order and after any sequence of rebuilds.
C1_UserPrecedence ==
    (Applied /\ MatchingUsers # {} /\ MatchingHosts # {}) =>
        LET first == CHOOSE i \in MatchingUsers : \A k \in MatchingUsers : i <= k
        IN /\ last.requests = <<cfg.syntax_mapping[first].syntaxFile>>
           /\ view.syntax = cfg.syntax_mapping[first].syntaxFile
           /\ \A j \in MatchingHosts : view.syntax # StTable[j].syntaxFile

\* the applier ran on a line that a user mapping and a host mapping match,
\* after a rebuild
C1_Witness ==
    /\ Applied
    /\ MatchingUsers # {}
    /\ MatchingHosts # {}
    /\ Len(StTable) = 2

\* the resources findSyntaxResources(True) keeps: for each path without
\* extension, the one with the extension of highest priority
HigherPriority(e1, e2) ==
    \E i, j \in DOMAIN SyntaxFileExts :
        /\ <<SyntaxFileExts[i]>> = e1
        /\ <<SyntaxFileExts[j]>> = e2
        /\ i < j
Kept(packages) ==
    {r \in packages :
        ~\E q \in packages :
            /\ SplitExt(q.path).name = SplitExt(r.path).name
            /\ HigherPriority(SplitExt(q.path).ext, SplitExt(r.path).ext)}

\* a kept resource that declares a first-line pattern which compiles
Usable(r) ==
    /\ findFirstLineMatch(r.content).kind = "value"
    /\ ~CompileFails(findFirstLineMatch(r.content).val)

\* C2: a resource whose content cannot be processed (it fails to parse, or is
\* empty after trimming) is skipped alone: no exception leaves the build of
\* the host-discovered mappings, and every other resource with a valid
\* first-line pattern has its entry in value().
C2_MalformedResourceSkipped ==
    last.op = "plugin_loaded" =>
        /\ ~last.raised
        /\ Built
        /\ \A r \in Kept(installed) :
              Usable(r) => \E j \in DOMAIN Table : Table[j].syntaxFile = r.path

\* the views a host may hold
Views == [firstLine : Lines,
          syntax : {PlainText} \cup UserSyntaxFiles \cup {r.path : r \in installed}]

\* C3: while the configured working_scope does not compile, the filter is
\* absent, isOnWorkingScope is false for every buffer and no event handler
\* runs the applier; once the configured pattern compiles, the filter is that
\* pattern.
C3_InvalidScopeDisablesGate ==
    (phase = "loaded" /\ Built) =>
        IF CompileFails(cfg.working_scope)
        THEN /\ IsNone(workingScopeRegex)
             /\ \A v \in Views : ~isOnWorkingScope(v)
             /\ last.op \in EventHandlers => (~last.invoked /\ last.requests = <<>>)
        ELSE workingScopeRegex = Some(cfg.working_scope)

\* an event arrived for an enabled listener while the configured working_scope,
\* set by a configuration change, does not compile
C3_Witness ==
    /\ phase = "loaded"
    /\ Built
    /\ CompileFails(cfg.working_scope)
    /\ last.op = "on_load_async"
    /\ last.warned = 1
    /\ ~last.raised

\* the toggle of an event is enabled, or absent from the configuration
ToggleOn(event) ==
    \/ IsNone(cfg.event_listeners)
    \/ event \notin DOMAIN Unwrap(cfg.event_listeners)
    \/ Unwrap(cfg.event_listeners)[event]

\* C4: when a paste command ('paste' or 'paste_and_indent') completes on a
\* buffer whose scope matches the working-scope filter and the toggle
\* on_post_paste is enabled or absent, the gate runs the applier.  (A handler
\* that issued no request left the buffer, and so its scope, as it was.)
C4_PasteInvokesApplier ==
    (/\ last.op = "on_post_text_command"
     /\ last.cmd \in {"paste", "paste_and_indent"}
     /\ ToggleOn("on_post_paste")
     /\ last.requests = <<>>
     /\ isOnWorkingScope(view))
        => last.invoked

\* the table entries that match the line the applier used
Hits == {i \in DOMAIN Table : EntryMatches(Table[i], last.firstLine)}

\* C5: one run of the applier issues at most one set_syntax_file request, and
\* when some entry matches, the request and the resulting syntax are the
\* identifier of the earliest matching entry of value().
C5_FirstMatchWins ==
    Applied =>
        /\ Len(last.requests) <= 1
        /\ Hits # {} =>
              LET first == CHOOSE i \in Hits : \A k \in Hits : i <= k
              IN /\ last.requests = <<Table[first].syntaxFile>>
                 /\ view.syntax = Table[first].syntaxFile

\* the applier ran on a line that two entries with different identifiers match
C5_Witness ==
    /\ Applied
    /\ \E i, k \in Hits : i < k /\ Table[i].syntaxFile # Table[k].syntaxFile

\* C6: a run of the applier on a line that no pattern of any entry matches
\* (in particular with an empty table) leaves the syntax of the buffer as it
\* was and issues no set_syntax_file request.
C6_NoMatchUnchanged ==
    [][(Applied' /\ Hits' = {}) =>
            (view'.syntax = view.syntax /\ last'.requests = <<>>)]_vars

\* the applier ran with an empty table on a buffer that is not plain text
C6_Witness ==
    /\ Applied
    /\ Table = <<>>
    /\ Hits = {}
    /\ view.syntax # PlainText

\* C7: the line the applier matches against is the first N characters of the
\* first line when first_line_length_max = N >= 0 and the line is longer than
\* N, the whole first line when N >= 0 and the line is not longer than N, and
\* the whole first line when first_line_length_max < 0; a pattern that matches
\* only beyond position N is not applied.
C7_Truncation ==
    Applied =>
        LET N == cfg.first_line_length_max
            whole == view.firstLine
        IN /\ (N >= 0 /\ Len(whole) > N) =>
                 /\ Len(last.firstLine) = N
                 /\ \A i \in 1..N : last.firstLine[i] = whole[i]
           /\ (N >= 0 /\ Len(whole) <= N) => last.firstLine = whole
           /\ N < 0 => last.firstLine = whole
           /\ (N >= 0 /\ \A i \in DOMAIN Table :
                            ~EntryMatches(Table[i], SubSeq(whole, 1, Min(N, Len(whole)))))
                 => last.requests = <<>>

\* the applier ran on a line longer than the maximum, and a pattern matches
\* the whole line but not its first N characters
C7_Witness ==
    /\ Applied
    /\ cfg.first_line_length_max >= 0
    /\ Len(view.firstLine) > cfg.first_line_length_max
    /\ Len(last.firstLine) = cfg.first_line_length_max
    /\ \E i \in DOMAIN Table : EntryMatches(Table[i], view.firstLine)
    /\ last.requests = <<>>

\* the part of value() built from the setting "syntax_mapping"
UserTable == SubSeq(Table, 1, Len(Table) - Len(StTable))

\* the pattern strings of a "syntax_mapping" item that compile, in order
ValidPatterns(item) ==
    SelectSeq(item.firstLineMatches, LAMBDA p : ~CompileFails(p))

\* C8: every entry of value() has at least one pattern: a user mapping whose
\* pattern strings all fail to compile has no entry, and neither has a host
\* resource without a pattern or with a pattern that does not compile.
C8_NonEmptyPatterns ==
    Built =>
        /\ \A i \in DOMAIN Table : Len(Table[i].regexes) > 0
        /\ \A k \in DOMAIN cfg.syntax_mapping :
              ValidPatterns(cfg.syntax_mapping[k]) = <<>> =>
                  \A i \in DOMAIN UserTable :
                      UserTable[i].syntaxFile # cfg.syntax_mapping[k].syntaxFile
        /\ \A r \in installed :
              ~Usable(r) => \A j \in DOMAIN StTable : StTable[j].syntaxFile # r.path

\* a rebuild ran on a configuration with a mapping none of whose patterns
\* compiles, with a host resource whose pattern does not compile
C8_Witness ==
    /\ Built
    /\ last.op = "rebuildSyntaxMappings"
    /\ \E k \in DOMAIN cfg.syntax_mapping : ValidPatterns(cfg.syntax_mapping[k]) = <<>>
    /\ \E r \in Kept(installed) :
          /\ findFirstLineMatch(r.content).kind = "value"
          /\ CompileFails(findFirstLineMatch(r.content).val)
    /\ Table # <<>>

\* the "syntax_mapping" items with a pattern that compiles, in configuration order
ValidItems == SelectSeq(cfg.syntax_mapping, LAMBDA item : ValidPatterns(item) # <<>>)

\* the pattern strings of the configuration that do not compile
InvalidCount(syntax_mapping) ==
    Cardinality(UNION {{<<k, n>> : n \in {m \in DOMAIN syntax_mapping[k].firstLineMatches :
                                            CompileFails(syntax_mapping[k].firstLineMatches[m])}} :
                       k \in DOMAIN syntax_mapping})

\* C9: a pattern that does not compile is dropped alone.  The user part of
\* value() holds, in configuration order, every identifier with a pattern that
\* compiles, each with its compiling patterns in order; the host part holds
\* exactly the kept resources whose pattern compiles; a rebuild raises nothing
\* and logs one error per dropped pattern; and plugin_loaded raises only when
\* the extraction from some resource raises, never for a pattern.
C9_InvalidPatternDropped ==
    /\ Built =>
          /\ Len(UserTable) = Len(ValidItems)
          /\ \A i \in DOMAIN UserTable :
                /\ UserTable[i].syntaxFile = ValidItems[i].syntaxFile
                /\ UserTable[i].regexes = ValidPatterns(ValidItems[i])
          /\ {StTable[j].syntaxFile : j \in DOMAIN StTable}
                = {r.path : r \in {q \in Kept(installed) : Usable(q)}}
          /\ Len(StTable) = Cardinality({q \in Kept(installed) : Usable(q)})
    /\ last.op = "rebuildSyntaxMappings" =>
          /\ ~last.raised
          /\ last.errors = InvalidCount(cfg.syntax_mapping)
    /\ (last.op = "plugin_loaded" /\ last.raised) =>
          \E r \in installed : findFirstLineMatch(r.content).kind = "raise"

\* a rebuild ran on a mapping with a pattern that does not compile next to one
\* that does, with a host resource whose pattern does not compile next to
\* resources whose patterns do
C9_Witness ==
    /\ Built
    /\ last.op = "rebuildSyntaxMappings"
    /\ last.errors > 0
    /\ \E k \in DOMAIN cfg.syntax_mapping :
          /\ ValidPatterns(cfg.syntax_mapping[k]) # <<>>
          /\ ValidPatterns(cfg.syntax_mapping[k]) # cfg.syntax_mapping[k].firstLineMatches
    /\ Len(UserTable) = 2
    /\ Len(StTable) = 2
    /\ \E r \in Kept(installed) : ~Usable(r)

\* the handlers whose condition is the toggle and the working scope
ToggleScopeHandlers == {"on_activated_async", "on_clone_async", "on_load_async",
                        "on_new_async", "on_pre_save_async"}

\* the toggle of an event is missing: no event_listeners, or no key for it
ToggleMissing(event) ==
    \/ IsNone(cfg.event_listeners)
    \/ event \notin DOMAIN Unwrap(cfg.event_listeners)

\* C10: a handler whose toggle is missing logs one warning, raises nothing and
\* goes on as enabled; a handler whose toggle is present logs nothing and goes
\* on only if the toggle is true.  (The name of each of these handlers is the
\* name of its toggle; a handler that issued no request left the buffer, and
\* so its scope, as it was.)
C10_MissingTogglesFailOpen ==
    (phase = "loaded" /\ last.op \in ToggleScopeHandlers \cup {"on_modified_async"}) =>
        /\ ~last.raised
        /\ ToggleMissing(last.op) => last.warned = 1
        /\ ~ToggleMissing(last.op) =>
              /\ last.warned = 0
              /\ last.invoked => Unwrap(cfg.event_listeners)[last.op]
        /\ (/\ last.op \in ToggleScopeHandlers
            /\ last.requests = <<>>
            /\ isOnWorkingScope(view))
              => (last.invoked <=> ToggleOn(last.op))

\* on_new_async ran the applier although event_listeners has no key for it
C10_Witness ==
    /\ phase = "loaded"
    /\ last.op = "on_new_async"
    /\ ~IsNone(cfg.event_listeners)
    /\ "on_new_async" \notin DOMAIN Unwrap(cfg.event_listeners)
    /\ last.warned = 1
    /\ last.invoked
    /\ ~last.raised

\* the paths without extension of the installed resources
LogicalNames == {SplitExt(r.path).name : r \in installed}

\* the extensions under which a logical name is installed, by priority
ExtsOf(n) == {i \in DOMAIN SyntaxFileExts :
                \E r \in installed : r.path = n \o <<SyntaxFileExts[i]>>}

\* C11: findSyntaxResources(True) returns, for every logical name, exactly one
\* resource: the '.sublime-syntax' one when the name is installed under both
\* extensions, else the one with the only extension it is installed under;
\* no logical name appears twice and nothing else is returned.
C11_DropDuplicatedKeepsHighest ==
    (last.op = "findSyntaxResources" /\ last.args.dropDuplicated) =>
        LET syntaxFiles == last.result
        IN /\ \A n \in LogicalNames :
                 /\ Cardinality({i \in DOMAIN syntaxFiles :
                                    SplitExt(syntaxFiles[i]).name = n}) = 1
                 /\ \E i \in DOMAIN syntaxFiles :
                       syntaxFiles[i] =
                          n \o <<SyntaxFileExts[CHOOSE e \in ExtsOf(n) :
                                                  \A f \in ExtsOf(n) : e <= f]>>
                 /\ (ExtsOf(n) = DOMAIN SyntaxFileExts) =>
                       \E i \in DOMAIN syntaxFiles :
                          syntaxFiles[i] = n \o <<ExtSublimeSyntax>>
           /\ \A i \in DOMAIN syntaxFiles : SplitExt(syntaxFiles[i]).name \in LogicalNames

\* findSyntaxResources(True) ran with a name installed under both extensions,
\* a name under '.tmLanguage' only and a name under '.sublime-syntax' only
C11_Witness ==
    /\ last.op = "findSyntaxResources"
    /\ last.args.dropDuplicated
    /\ \E n \in LogicalNames : ExtsOf(n) = {1, 2}
    /\ \E n \in LogicalNames : ExtsOf(n) = {2}
    /\ \E n \in LogicalNames : ExtsOf(n) = {1}
    /\ Len(last.result) = 3

\* the positions of the content before its first "contexts:" marker
BeforeContexts(content) ==
    {i \in DOMAIN content : \A j \in 1..i : content[j].t # "contexts:"}

\* the positions before the marker that declare the field first_line_match,
\* and those whose text holds the field name
Declared(content) ==
    {i \in BeforeContexts(content) : content[i].t = "first_line_match:"}
Mentioned(content) ==
    {i \in BeforeContexts(content) :
        content[i].t \in {"first_line_match:", "#first_line_match"}}

\* C12: findFirstLineMatchYaml only sees the text before the first
\* "contexts:" marker.  When the field first_line_match is declared there (in
\* a document that parses), its value is returned (the last declaration's
\* when there are several); when the field name occurs only after the marker
\* or not at all, the result is None, whatever the rest of the content holds,
\* malformed text included.
C12_YamlCutAtContexts ==
    last.op = "findFirstLineMatchYaml" =>
        LET content == last.args
        IN /\ (/\ Declared(content) # {}
               /\ \A i \in BeforeContexts(content) : content[i].t # "!bad")
                 => LET d == CHOOSE i \in Declared(content) :
                                \A k \in Declared(content) : k <= i
                    IN last.result = Ret(content[d].v)
           /\ Mentioned(content) = {} => last.result = RetNone

\* the extractor ran on a content that declares one pattern before the marker
\* "contexts:" and another one after it
C12_Witness ==
    /\ last.op = "findFirstLineMatchYaml"
    /\ \E i, j, k \in DOMAIN last.args :
          /\ i < j /\ j < k
          /\ last.args[i] = Val("first_line_match:", <<"a">>)
          /\ last.args[j].t = "contexts:"
          /\ last.args[k] = Val("first_line_match:", <<"b">>)
    /\ last.result = Ret(<<"a">>)

\* the toggle a handler consults
ToggleOf(op) == IF op = "on_post_text_command" THEN "on_post_paste" ELSE op

\* the toggle of an event is present and false
ToggleOff(event) ==
    /\ ~IsNone(cfg.event_listeners)
    /\ event \in DOMAIN Unwrap(cfg.event_listeners)
    /\ ~Unwrap(cfg.event_listeners)[event]

\* C13: in every step of an event handler, the applier runs only if the
\* handler's toggle is true or missing and the working-scope filter is present
\* and matches the scope the buffer had at offset 0 when the event arrived; a
\* handler whose toggle is false issues no set_syntax_file request and leaves
\* the syntax of the buffer as it was.
C13_GateSoundness ==
    [][last'.op \in EventHandlers =>
          /\ last'.invoked =>
                /\ ToggleOn(ToggleOf(last'.op))
                /\ ~IsNone(workingScopeRegex)
                /\ Search(Unwrap(workingScopeRegex), ScopeName(view.syntax))
          /\ ToggleOff(ToggleOf(last'.op)) =>
                /\ ~last'.invoked
                /\ last'.requests = <<>>
                /\ view'.syntax = view.syntax]_vars

\* an event arrived on a buffer in the working scope while its toggle is false
C13_Witness ==
    /\ last.op \in EventHandlers
    /\ ToggleOff(ToggleOf(last.op))
    /\ isOnWorkingScope(view)
    /\ ~last.invoked
    /\ Built
    /\ \E i \in DOMAIN Table : EntryMatches(Table[i], view.firstLine)

\* C14: a step of on_modified_async that runs the applier had exactly one
\* cursor, on row 0 or 1; with zero or several cursors, or one cursor on row 2
\* or below, the step runs nothing and leaves the buffer's syntax as it was
\* (stated as: a step that ran the applier, issued a request or changed the
\* syntax is a step of one cursor on row 0 or 1).
\* The structural guards of on_modified_async in AutoSetNewFileSyntax.py pass
\* for the same cursor counts and rows.
C14_ModifiedStructuralGuards ==
    [][last'.op = "on_modified_async" =>
          /\ (last'.invoked \/ last'.requests # <<>> \/ view'.syntax # view.syntax) =>
                \A sels \in CursorCounts : \A row \in CursorRows :
                    OnModified(sels, row) => (sels = 1 /\ row < 2)
          /\ \A sels \in CursorCounts : \A row \in CursorRows :
                NewFilePassesCursorGuards(sels, row)
                   <=> (isOnlyOneCursor(sels) /\ isFirstCursorNearBeginning(row))]_vars

\* on_modified_async arrived with its toggle on, on a buffer in the working
\* scope whose first line an entry matches, and ran nothing
C14_Witness ==
    /\ last.op = "on_modified_async"
    /\ ToggleOn("on_modified_async")
    /\ isOnWorkingScope(view)
    /\ Built
    /\ \E i \in DOMAIN Table : EntryMatches(Table[i], view.firstLine)
    /\ ~last.invoked
    /\ ~last.raised

\* C15: once SyntaxMappings is constructed, value() is the entries of the
\* current "syntax_mapping" setting (those with a pattern that compiles, in
\* the setting's order, each with its compiling patterns) followed by
\* syntaxMappingsSt, and no step after construction changes syntaxMappingsSt.
C15_TableIsUserThenHost ==
    /\ [](Built =>
            /\ Len(Table) = Len(ValidItems) + Len(StTable)
            /\ \A i \in DOMAIN ValidItems :
                  Table[i] = Entry(ValidItems[i].syntaxFile, ValidPatterns(ValidItems[i]))
            /\ \A j \in DOMAIN StTable : Table[Len(ValidItems) + j] = StTable[j])
    /\ [][(Built /\ Built') => StTable' = StTable]_vars

\* a rebuild ran: the table holds two user entries before two host entries
C15_Witness ==
    /\ Built
    /\ last.op = "rebuildSyntaxMappings"
    /\ Len(ValidItems) = 2
    /\ Len(StTable) = 2
    /\ Len(Table) = 4

\* C16: a run of the applier that a rebuild interleaves with applies what one
\* whole table determines: the request it issued is the one a scan of some
\* table that was current during the run issues for the line, from its first
\* entry to its last, and never an outcome only a mixture of entries of two
\* tables gives.
C16_ScanSeesOneTable ==
    (thread.pc = "done" /\ thread.scope = Some(TRUE)) =>
        \E table \in thread.tables :
            thread.requests = Scan(table, 1, 1, thread.firstLine)

\* a run ended during which a rebuild replaced the table, and the old and the
\* new table determine different syntaxes for the line
C16_Witness ==
    /\ thread.pc = "done"
    /\ thread.scope = Some(TRUE)
    /\ \E t1, t2 \in thread.tables :
          Scan(t1, 1, 1, thread.firstLine) # Scan(t2, 1, 1, thread.firstLine)
    /\ thread.requests # <<>>

\* what isOnWorkingScope returns for the buffer under a given filter
ScopeResult(filter) ==
    ~IsNone(filter) /\ Search(Unwrap(filter), ScopeName(view.syntax))

\* C17: an isOnWorkingScope that compileWorkingScope interleaves with raises
\* no exception and returns what the filter before the recompile or the filter
\* after it gives for the buffer.  (A callback that has issued no request left
\* the buffer, and so its scope, as it was.)
C17_ScopeCheckRaceFree ==
    (/\ thread.filters # {}
     /\ thread.pc \notin {"is_none", "search"}
     /\ thread.requests = <<>>)
        => /\ ~thread.raised
           /\ \E filter \in thread.filters : thread.scope = Some(ScopeResult(filter))

\* C18: an event handler called before plugin_loaded has run (the globals are
\* None) does not run the applier and raises no exception, whichever handler
\* it is.
C18_EventBeforeLoadedHarmless ==
    (phase = "imported" /\ last.op \in EventHandlers) =>
        /\ ~last.invoked
        /\ ~last.raised
        /\ last.requests = <<>>

\* C19: while the plugin is loaded, one stream handler is attached to the
\* logger and a change listener is registered for 'syntax_mapping' and for
\* 'working_scope'; after plugin_unloaded there is no stream handler and no
\* change listener, and a change of the configuration then runs neither
\* rebuildSyntaxMappings nor compileWorkingScope and leaves the table and the
\* filter as they were.
C19_LifecycleNoResidue ==
    /\ [](/\ phase = "loaded" =>
                (handlers = 1 /\ onChange = {"syntax_mapping", "working_scope"})
          /\ phase = "unloaded" => (handlers = 0 /\ onChange = {}))
    /\ [][(phase = "unloaded" /\ cfg' # cfg) =>
              /\ syntaxMappings' = syntaxMappings
              /\ workingScopeRegex' = workingScopeRegex
              /\ last'.op \notin {"rebuildSyntaxMappings", "compileWorkingScope"}]_vars

\* C20: the applier is idempotent: when a callback runs the applier right
\* after a callback that ran it (so with the table, the settings and the first
\* line as they were), the buffer has the same syntax after the second run as
\* after the first.
C20_ApplyIdempotent ==
    [][(last.invoked /\ ~last.raised /\ last'.invoked /\ ~last'.raised) =>
            view'.syntax = view.syntax]_vars

\* the applier ran twice in a row and matched the line both times
C20_Witness ==
    /\ last.again
    /\ Applied
    /\ last.requests = <<view.syntax>>
    /\ view.syntax # PlainText

=============================================================================
